---------------------------- MODULE Spec2Model ----------------------------
(***************************************************************************)
(* Model of app/src/main/cpp/llama_jni.cpp: the process-wide inference     *)
(* session (model, vocabulary, context, sampler, batch buffer), its        *)
(* lifecycle entry points (loadModel, unloadModel, stopGeneration) and the *)
(* cancellable generate call.                                              *)
(*                                                                         *)
(* Threads.  The JNI entry points take no lock, so calls interleave at the *)
(* granularity of their reads and writes of the globals.  The model runs   *)
(*   - one lifecycle thread issuing loadModel / unloadModel /              *)
(*     stopGeneration calls one after the other, and                       *)
(*   - two caller slots issuing generate calls.  The code keeps no         *)
(*     per-thread state between calls, so a call is identified by the slot *)
(*     it occupies; slot 2 is taken only while slot 1 is occupied.         *)
(*                                                                         *)
(* Resources.  A handle is 0 (nullptr) or the number of the loadModel      *)
(* attempt that created the resource.  `live` is the backend's heap: the   *)
(* set of <<kind, id>> currently allocated.  Dereferencing nullptr ends    *)
(* the process (SIGSEGV); using a released, non-null resource is undefined *)
(* behaviour and either ends the process or goes on unnoticed.             *)
(***************************************************************************)
EXTENDS Integers, Sequences, FiniteSets, TLC

(***************************************************************************)
(* Program constants (llama_jni.cpp:37-51).                                *)
(***************************************************************************)
kLowEndContext == 512
kMidContext == 1024
kMidHighContext == 1536
kHighContext == 2048
kLowEndBatch == 128
kHighBatch == 256
kLowEndMaxThreads == 4
kMaxThreads == 8
kLowEndMaxGenTokens == 256
kMidMaxGenTokens == 512
kHighMaxGenTokens == 768
\* 7ULL * 1000 * 1000 * 1000 parameters, counted in millions of parameters
kMaxParams == 7000

(***************************************************************************)
(* Bounds of the model.                                                    *)
(***************************************************************************)
\* total number of JNI calls (of any kind) issued in one behaviour
MaxCalls == 3
\* longest short prompt, in tokens
MaxPromptLen == 3
\* the backend ends the sequence, or fails a single-token decode, only
\* within the first MaxEventStep iterations of a token loop
MaxEventStep == 2
\* total number of JNI calls issued by the "cancel" client
MaxCancelCalls == 4

(***************************************************************************)
(* Inputs.                                                                 *)
(***************************************************************************)
\* Four kinds of client drive the entry points: "threads" calls them
\* concurrently and keeps its arguments small; "serial" issues one call at
\* a time and also uses arguments of the size met on a device; "cancel"
\* loads and unloads only while nothing else runs, and calls generate and
\* stopGeneration concurrently; "plan" issues lifecycle calls only, on
\* devices of every memory tier.
Clients == {"threads", "serial", "cancel", "plan"}
\* sysinfo() totals, in MB, and hardware_concurrency() of the devices tried
DeviceMems == {3072}
DeviceCores == {6}
\* the devices of the "plan" client: both sides of every tier threshold, the
\* default of getTotalMemoryMB, and core counts around both thread caps
\* (hardware_concurrency() returns 0 when it cannot tell)
PlanDeviceMems == {1024, 3072, 3073, 4096, 4097, 6144, 6145, 8192, 8193, 16384}
PlanDeviceCores == {0, 1, 4, 6, 8, 12}
Devices(c) ==
    IF c = "plan"
    THEN [totalMB : PlanDeviceMems, cores : PlanDeviceCores]
    ELSE [totalMB : DeviceMems, cores : DeviceCores]
\* nCtx arguments of loadModel and trained context lengths of model files
RequestedCtx(c) ==
    CASE c = "serial" -> {17, 20, 600}
      [] c = "cancel" -> {600}
      [] OTHER -> {20}
TrainCtx(c) ==
    CASE c = "serial" -> {19, 4096}
      [] c = "cancel" -> {4096}
      [] OTHER -> {19}
\* parameter counts of model files, in millions of parameters
ParamCounts == {6700, 7000, 13000}
\* llama_model_desc strings of model files, as sequences of characters
ModelDescs ==
    { <<"7", "B", " ", "Q", "4", "_", "K">>,
      <<"Q", "5", "_", "0">>,
      <<"Q", "u", "a", "n", "t", "i", "z", "e", "d">>,
      <<"7", "B", " ", "F", "1", "6">>,
      <<"Q", "8", "_", "0">> }
\* maxTokens arguments of generate
ReqMaxTokens(c) ==
    CASE c = "serial" -> {0, 2, 1000}
      [] c = "cancel" -> {3}
      [] OTHER -> {2}
\* lengths of tokenized prompts (0: the tokenizer fails)
PromptLens(c) ==
    CASE c = "serial" -> (0..MaxPromptLen) \cup {300}
      [] c = "cancel" -> {130}
      [] OTHER -> {0, 2}

Callers == {1, 2}
Kinds == {"batch", "sampler", "ctx", "model"}

Min2(a, b) == IF a <= b THEN a ELSE b
Max2(a, b) == IF a >= b THEN a ELSE b

\* obs, per call: orig, the tokenized prompt; evald, the prompt tokens
\* decoded; delivered, the fragments given to the callback; nSubmit, the
\* single-token decodes submitted; converted, the tokens turned into text;
\* sampled, the tokens sampled; fed, the batch entries handed to
\* llama_decode since the memory was cleared; logits, whether the last decode
\* succeeded and left logits for its last entry.
VARIABLES
    client,        \* the kind of client driving the entry points
    g_model, g_ctx, g_sampler, g_vocab,        \* handles: 0 or attempt id
    g_is_generating, g_generation_id, g_stop_generation_id,
    g_batch, g_batch_initialized,
    g_batch_size, g_context_size, g_n_threads, g_max_gen_tokens,
    device,        \* [totalMB, cores]: what sysinfo / hardware_concurrency report
    live,          \* backend heap: set of <<kind, id>> allocated and not freed
    badFree,       \* a resource was freed that was not live (double free)
    relBy,         \* per kind: the call that last released or nulled it
    ctxParams,     \* n_ctx / n_batch handed to llama_init_from_model
    crashed,       \* the process died (SIGSEGV)
    lc,            \* lifecycle thread: pc, arguments, locals, last result
    gen,           \* caller slots: pc and locals of the generate call
    obs,           \* per slot: what the call did, as seen from outside
    nCalls,        \* JNI calls issued so far
    uafBy,         \* calls whose release a generation ran into
    cancel         \* stop requests issued during a generation, and its
                   \* loop iterations begun after the request returned

vars == << client, g_model, g_ctx, g_sampler, g_vocab, g_is_generating,
           g_generation_id, g_stop_generation_id, g_batch,
           g_batch_initialized, g_batch_size, g_context_size, g_n_threads,
           g_max_gen_tokens, device, live, badFree, relBy, ctxParams,
           crashed, lc, gen, obs, nCalls, uafBy, cancel >>

sessionVars == << g_model, g_ctx, g_sampler, g_vocab, g_batch,
                  g_batch_initialized, live, badFree, relBy, ctxParams >>
envVars == << client, device >>
planVars == << g_batch_size, g_context_size, g_n_threads, g_max_gen_tokens >>
epochVars == << g_is_generating, g_generation_id, g_stop_generation_id >>

(***************************************************************************)
(* ConfigPolicy: getThreadCount and applyDeviceConfig.                     *)
(***************************************************************************)
getThreadCount(lowEnd, cores) ==
    LET cpuCores == IF cores <= 0 THEN 1 ELSE cores
        cap == IF lowEnd THEN kLowEndMaxThreads ELSE kMaxThreads
    IN  Min2(cpuCores, cap)

\* mutant: the second tier is given the third tier's token cap
applyDeviceConfigMidCap(totalMB, cores) ==
    LET lowEnd == totalMB <= 3072
        tier ==
            IF totalMB <= 3072 THEN
                [ctx |-> kLowEndContext, batch |-> kLowEndBatch,
                 maxGen |-> kLowEndMaxGenTokens]
            ELSE IF totalMB <= 4096 THEN
                [ctx |-> kMidContext, batch |-> kHighBatch,
                 maxGen |-> kMidMaxGenTokens]
            ELSE IF totalMB <= 6144 THEN
                [ctx |-> kMidHighContext, batch |-> kHighBatch,
                 maxGen |-> kMidMaxGenTokens]
            ELSE IF totalMB <= 8192 THEN
                [ctx |-> kHighContext, batch |-> kHighBatch,
                 maxGen |-> kMidMaxGenTokens]
            ELSE
                [ctx |-> kHighContext, batch |-> kHighBatch,
                 maxGen |-> kHighMaxGenTokens]
    IN  [context_size |-> tier.ctx, batch_size |-> tier.batch,
         max_gen_tokens |-> tier.maxGen,
         n_threads |-> getThreadCount(lowEnd, cores)]

applyDeviceConfig(totalMB, cores) ==
    LET lowEnd == totalMB <= 3072
        tier ==
            IF totalMB <= 3072 THEN
                [ctx |-> kLowEndContext, batch |-> kLowEndBatch,
                 maxGen |-> kLowEndMaxGenTokens]
            ELSE IF totalMB <= 4096 THEN
                [ctx |-> kMidContext, batch |-> kHighBatch, maxGen |-> 384]
            ELSE IF totalMB <= 6144 THEN
                [ctx |-> kMidHighContext, batch |-> kHighBatch,
                 maxGen |-> kMidMaxGenTokens]
            ELSE IF totalMB <= 8192 THEN
                [ctx |-> kHighContext, batch |-> kHighBatch,
                 maxGen |-> kMidMaxGenTokens]
            ELSE
                [ctx |-> kHighContext, batch |-> kHighBatch,
                 maxGen |-> kHighMaxGenTokens]
    IN  [context_size |-> tier.ctx, batch_size |-> tier.batch,
         max_gen_tokens |-> tier.maxGen,
         n_threads |-> getThreadCount(lowEnd, cores)]

(***************************************************************************)
(* The quantization gate of loadModel: lower-case the description and look *)
(* for "q4", "q5" or "quantized".                                          *)
(***************************************************************************)
ToLowerChar(c) ==
    CASE c = "Q" -> "q"
      [] c = "U" -> "u"
      [] c = "A" -> "a"
      [] c = "N" -> "n"
      [] c = "T" -> "t"
      [] c = "I" -> "i"
      [] c = "Z" -> "z"
      [] c = "E" -> "e"
      [] c = "D" -> "d"
      [] c = "B" -> "b"
      [] c = "F" -> "f"
      [] c = "K" -> "k"
      [] OTHER -> c

ToLower(s) == [i \in 1..Len(s) |-> ToLowerChar(s[i])]

Contains(s, sub) ==
    \E i \in 1..(Len(s) - Len(sub) + 1) : SubSeq(s, i, i + Len(sub) - 1) = sub

QuantizationAccepted(desc) ==
    LET desc_str == ToLower(desc)
    IN  ~ ( ~Contains(desc_str, <<"q", "4">>)
            /\ ~Contains(desc_str, <<"q", "5">>)
            /\ ~Contains(desc_str, <<"q", "u", "a", "n", "t", "i", "z", "e", "d">>) )

(***************************************************************************)
(* Heap helpers.                                                           *)
(***************************************************************************)
\* llama_*_free(h) for the resource <<kind, h>>
FreeIn(heap, kind, h) == heap \ {<<kind, h>>}
IsBadFree(heap, kind, h) == h # 0 /\ <<kind, h>> \notin heap

NoBatch == [mem |-> 0, cap |-> 0, entries |-> << >>]

(***************************************************************************)
(* Query surface.                                                          *)
(***************************************************************************)
isModelLoaded == g_model # 0 /\ g_ctx # 0
isGenerating == g_is_generating
getContextSize == g_context_size
getModelInfoNonEmpty == ~(g_model = 0 \/ g_vocab = 0)
generateLoadedCheck ==
    ~(g_model = 0 \/ g_ctx = 0 \/ g_vocab = 0 \/ ~g_batch_initialized)

(***************************************************************************)
(* Initial state: the globals as initialised at llama_jni.cpp:21-35.       *)
(***************************************************************************)
IdleLc ==
    [pc |-> "idle", nCtx |-> 0, train |-> 0, id |-> 0, gid |-> 0,
     stopId |-> 0, ldActive |-> 0,
     batch_copy |-> FALSE, sampler_copy |-> 0, ctx_copy |-> 0,
     model_copy |-> 0, ret |-> "none", err |-> "none"]

IdleGen ==
    [pc |-> "idle", reqMax |-> 0, local_id |-> 0, maxTokens |-> 0,
     tokens |-> << >>, n_prompt |-> 0, n_processed |-> 0, n_batch |-> 0,
     n_cur |-> 0, n_generated |-> 0, new_token |-> 0, response |-> << >>,
     ret |-> "none"]

IdleObs ==
    [orig |-> << >>, ctxAtTrunc |-> 0, evald |-> << >>, delivered |-> << >>,
     nSubmit |-> 0, limit |-> 0, converted |-> 0, sampled |-> 0,
     fed |-> << >>, logits |-> FALSE]

NoCancel == [id |-> 0, iters |-> 0]
NotReleased == [by |-> "none", gid |-> 0]

InitGlobals ==
    /\ g_model = 0 /\ g_ctx = 0 /\ g_sampler = 0 /\ g_vocab = 0
    /\ g_is_generating = FALSE
    /\ g_generation_id = 0
    /\ g_stop_generation_id = 0
    /\ g_batch = NoBatch
    /\ g_batch_initialized = FALSE
    /\ g_batch_size = 128
    /\ g_context_size = 1024
    /\ g_n_threads = 4
    /\ g_max_gen_tokens = 256
    /\ device \in Devices(client)
    /\ live = {}
    /\ badFree = FALSE
    /\ relBy = [k \in Kinds \cup {"vocab"} |-> NotReleased]
    /\ ctxParams = [n_ctx |-> 0, n_batch |-> 0]
    /\ crashed = FALSE
    /\ lc = IdleLc
    /\ gen = [t \in Callers |-> IdleGen]
    /\ obs = [t \in Callers |-> IdleObs]
    /\ nCalls = 0
    /\ uafBy = {}
    /\ cancel = NoCancel

Init == client = "threads" /\ InitGlobals
InitSerial == client = "serial" /\ InitGlobals
InitCancel == client = "cancel" /\ InitGlobals
InitPlan == client = "plan" /\ InitGlobals


(***************************************************************************)
(* Lifecycle thread.  Every call is counted at its entry; a return puts    *)
(* the thread back to "idle" and records the result in lc.ret.             *)
(***************************************************************************)
Quiescent == lc.pc = "idle" /\ \A t \in Callers : gen[t].pc = "idle"
CallBudget == IF client = "cancel" THEN MaxCancelCalls ELSE MaxCalls
CanCall ==
    /\ ~crashed /\ nCalls < CallBudget
    /\ client = "serial" => Quiescent
\* the "cancel" client loads and unloads only while nothing else runs ...
CanCallLoadUnload == CanCall /\ (client = "cancel" => Quiescent)
\* ... and calls generate only while no load or unload runs
CanCallGenerate ==
    CanCall /\ (client = "cancel" => lc.pc \in {"idle", "S_ld", "S_st"})
LcAt(p) == ~crashed /\ lc.pc = p
\* the mark a lifecycle call leaves on what it nulls or frees: the call, and
\* the generation that was running when the call was made
ReleasedBy(call) == [by |-> call, gid |-> lc.gid]
LcGoto(p) == lc' = [lc EXCEPT !.pc = p]
\* return from the call: the locals die, the result stays
LcReturn(r) == lc' = [IdleLc EXCEPT !.ret = r]
\* return from loadModel; what was asked for and why it failed stay on record
LcReturnLoad(r, e) ==
    lc' = [IdleLc EXCEPT !.ret = r, !.err = e, !.nCtx = lc.nCtx,
                         !.train = lc.train]
\* mutant: the model's trained context length is left out of the cap
Min3IgnoresTrain(a, b, c) == Min2(a, b)
\* 227: std::min({nCtx, deviceCtx, modelTrainCtx})
Min3(a, b, c) == Min2(a, Min2(b, c))

\* the generation that holds the generating flag and has minted its id
ActiveId ==
    IF \E t \in Callers : gen[t].pc # "idle" /\ gen[t].local_id # 0
    THEN (CHOOSE t \in Callers : gen[t].pc # "idle" /\ gen[t].local_id # 0)
    ELSE 0
ActiveLocalId == IF ActiveId = 0 THEN 0 ELSE gen[ActiveId].local_id

\* ---- loadModel (llama_jni.cpp:166-299) ----
LoadCall ==
    /\ CanCallLoadUnload /\ lc.pc = "idle"
    /\ \E nCtx \in RequestedCtx(client) :
          lc' = [IdleLc EXCEPT !.pc = "L_batch", !.nCtx = nCtx,
                               !.id = nCalls + 1, !.gid = ActiveLocalId]
    /\ nCalls' = nCalls + 1
    /\ UNCHANGED << sessionVars, planVars, epochVars, envVars, crashed, gen,
                    obs, uafBy, cancel >>

\* 176-179
LoadFreeBatch ==
    /\ LcAt("L_batch")
    /\ IF g_batch_initialized
       THEN /\ live' = FreeIn(live, "batch", g_batch.mem)
            /\ badFree' = (badFree \/ IsBadFree(live, "batch", g_batch.mem))
            /\ g_batch_initialized' = FALSE
            /\ relBy' = [relBy EXCEPT !["batch"] = ReleasedBy("load")]
       ELSE UNCHANGED << live, badFree, g_batch_initialized, relBy >>
    /\ LcGoto("L_sampler")
    /\ UNCHANGED << g_model, g_ctx, g_sampler, g_vocab, g_batch, ctxParams,
                    planVars, epochVars, envVars, crashed, gen, obs, nCalls,
                    uafBy, cancel >>

\* 180-183
LoadFreeSampler ==
    /\ LcAt("L_sampler")
    /\ IF g_sampler # 0
       THEN /\ live' = FreeIn(live, "sampler", g_sampler)
            /\ badFree' = (badFree \/ IsBadFree(live, "sampler", g_sampler))
            /\ g_sampler' = 0
            /\ relBy' = [relBy EXCEPT !["sampler"] = ReleasedBy("load")]
       ELSE UNCHANGED << live, badFree, g_sampler, relBy >>
    /\ LcGoto("L_ctx")
    /\ UNCHANGED << g_model, g_ctx, g_vocab, g_batch, g_batch_initialized,
                    ctxParams, planVars, epochVars, envVars, crashed, gen, obs,
                    nCalls, uafBy, cancel >>

\* 184-187
LoadFreeCtx ==
    /\ LcAt("L_ctx")
    /\ IF g_ctx # 0
       THEN /\ live' = FreeIn(live, "ctx", g_ctx)
            /\ badFree' = (badFree \/ IsBadFree(live, "ctx", g_ctx))
            /\ g_ctx' = 0
            /\ relBy' = [relBy EXCEPT !["ctx"] = ReleasedBy("load")]
       ELSE UNCHANGED << live, badFree, g_ctx, relBy >>
    /\ LcGoto("L_model")
    /\ UNCHANGED << g_model, g_sampler, g_vocab, g_batch,
                    g_batch_initialized, ctxParams, planVars, epochVars,
                    envVars, crashed, gen, obs, nCalls, uafBy, cancel >>

\* 188-191: the vocabulary lives in the model and dies with it
LoadFreeModel ==
    /\ LcAt("L_model")
    /\ IF g_model # 0
       THEN /\ live' = FreeIn(live, "model", g_model)
            /\ badFree' = (badFree \/ IsBadFree(live, "model", g_model))
            /\ g_model' = 0
            /\ relBy' = [relBy EXCEPT !["model"] = ReleasedBy("load"), !["vocab"] = ReleasedBy("load")]
       ELSE UNCHANGED << live, badFree, g_model, relBy >>
    /\ LcGoto("L_vocab")
    /\ UNCHANGED << g_ctx, g_sampler, g_vocab, g_batch, g_batch_initialized,
                    ctxParams, planVars, epochVars, envVars, crashed, gen, obs,
                    nCalls, uafBy, cancel >>

\* 192
LoadNullVocab ==
    /\ LcAt("L_vocab")
    /\ g_vocab' = 0
    /\ relBy' = IF g_vocab # 0 THEN [relBy EXCEPT !["vocab"] = ReleasedBy("load")] ELSE relBy
    /\ LcGoto("L_cfg")
    /\ UNCHANGED << g_model, g_ctx, g_sampler, g_batch, g_batch_initialized,
                    live, badFree, ctxParams, planVars, epochVars, envVars,
                    crashed, gen, obs, nCalls, uafBy, cancel >>

\* 198
LoadApplyDeviceConfig ==
    /\ LcAt("L_cfg")
    /\ LET plan == applyDeviceConfig(device.totalMB, device.cores)
       IN  /\ g_context_size' = plan.context_size
           /\ g_batch_size' = plan.batch_size
           /\ g_max_gen_tokens' = plan.max_gen_tokens
           /\ g_n_threads' = plan.n_threads
    /\ LcGoto("L_load")
    /\ UNCHANGED << sessionVars, epochVars, envVars, crashed, gen, obs, nCalls,
                    uafBy, cancel >>

\* 207-213: the backend accepts or rejects the file
LoadModelFromFile ==
    /\ LcAt("L_load")
    /\ \E accepted \in BOOLEAN :
          IF accepted
          THEN /\ g_model' = lc.id
               /\ live' = live \cup {<<"model", lc.id>>}
               /\ LcGoto("L_getvocab")
          ELSE /\ g_model' = 0
               /\ live' = live
               /\ LcReturnLoad("load_false", "file")
    /\ UNCHANGED << g_ctx, g_sampler, g_vocab, g_batch, g_batch_initialized,
                    badFree, relBy, ctxParams, planVars, epochVars, envVars,
                    crashed, gen, obs, nCalls, uafBy, cancel >>

\* 216-222
LoadGetVocab ==
    /\ LcAt("L_getvocab")
    /\ \E present \in BOOLEAN :
          IF present
          THEN /\ g_vocab' = g_model
               /\ UNCHANGED << g_model, live, badFree >>
               /\ LcGoto("L_cap")
          ELSE /\ g_vocab' = 0
               /\ live' = FreeIn(live, "model", g_model)
               /\ badFree' = (badFree \/ IsBadFree(live, "model", g_model))
               /\ g_model' = 0
               /\ LcReturnLoad("load_false", "vocab")
    /\ UNCHANGED << g_ctx, g_sampler, g_batch, g_batch_initialized, relBy,
                    ctxParams, planVars, epochVars, envVars, crashed, gen, obs,
                    nCalls, uafBy, cancel >>

\* 224-230: cap by requested and model limits
LoadCapContext ==
    /\ LcAt("L_cap")
    /\ \E modelTrainCtx \in TrainCtx(client) :
          LET deviceCtx == g_context_size
          IN  /\ g_context_size' = Min3(lc.nCtx, deviceCtx, modelTrainCtx)
              /\ lc' = [lc EXCEPT !.pc = "L_ctxnew", !.train = modelTrainCtx]
    /\ UNCHANGED << sessionVars, g_batch_size, g_n_threads, g_max_gen_tokens,
                    epochVars, envVars, crashed, gen, obs, nCalls, uafBy,
                    cancel >>

\* 232-249
LoadCreateContext ==
    /\ LcAt("L_ctxnew")
    /\ \E created \in BOOLEAN :
          IF created
          THEN /\ g_ctx' = lc.id
               /\ live' = live \cup {<<"ctx", lc.id>>}
               /\ ctxParams' = [n_ctx |-> g_context_size,
                                n_batch |-> g_batch_size]
               /\ UNCHANGED << g_model, g_vocab, badFree >>
               /\ LcGoto("L_params")
          ELSE /\ g_ctx' = 0
               /\ live' = FreeIn(live, "model", g_model)
               /\ badFree' = (badFree \/ IsBadFree(live, "model", g_model))
               /\ g_model' = 0
               /\ g_vocab' = 0
               /\ UNCHANGED ctxParams
               /\ LcReturnLoad("load_false", "ctx")
    /\ UNCHANGED << g_sampler, g_batch, g_batch_initialized, relBy, planVars,
                    epochVars, envVars, crashed, gen, obs, nCalls, uafBy,
                    cancel >>

\* mutant: the context of a rejected model is dropped without llama_free
ReleaseRejectedLeaksCtx ==
    /\ live' = FreeIn(live, "model", g_model)
    /\ badFree' = (badFree \/ IsBadFree(live, "model", g_model))
    /\ g_ctx' = 0
    /\ g_model' = 0
    /\ g_vocab' = 0

\* 255-260 and 271-276: release what a rejected model had acquired
ReleaseRejected ==
    /\ live' = FreeIn(FreeIn(live, "ctx", g_ctx), "model", g_model)
    /\ badFree' = (badFree \/ IsBadFree(live, "ctx", g_ctx)
                           \/ IsBadFree(live, "model", g_model))
    /\ g_ctx' = 0
    /\ g_model' = 0
    /\ g_vocab' = 0

\* 251-261
LoadParamGate ==
    /\ LcAt("L_params")
    /\ \E n_params \in ParamCounts :
          IF n_params > kMaxParams
          THEN ReleaseRejected /\ LcReturnLoad("load_false", "params")
          ELSE /\ UNCHANGED << g_model, g_ctx, g_vocab, live, badFree >>
               /\ LcGoto("L_quant")
    /\ UNCHANGED << g_sampler, g_batch, g_batch_initialized, relBy, ctxParams,
                    planVars, epochVars, envVars, crashed, gen, obs, nCalls,
                    uafBy, cancel >>

\* 263-277
LoadQuantGate ==
    /\ LcAt("L_quant")
    /\ \E desc \in ModelDescs :
          IF ~QuantizationAccepted(desc)
          THEN ReleaseRejected /\ LcReturnLoad("load_false", "quant")
          ELSE /\ UNCHANGED << g_model, g_ctx, g_vocab, live, badFree >>
               /\ LcGoto("L_binit")
    /\ UNCHANGED << g_sampler, g_batch, g_batch_initialized, relBy, ctxParams,
                    planVars, epochVars, envVars, crashed, gen, obs, nCalls,
                    uafBy, cancel >>

\* 279-282
LoadInitBatch ==
    /\ LcAt("L_binit")
    /\ g_batch' = [mem |-> lc.id, cap |-> g_batch_size, entries |-> << >>]
    /\ g_batch_initialized' = TRUE
    /\ live' = live \cup {<<"batch", lc.id>>}
    /\ LcGoto("L_sinit")
    /\ UNCHANGED << g_model, g_ctx, g_sampler, g_vocab, badFree, relBy,
                    ctxParams, planVars, epochVars, envVars, crashed, gen, obs,
                    nCalls, uafBy, cancel >>

\* 284-298
LoadInitSampler ==
    /\ LcAt("L_sinit")
    /\ g_sampler' = lc.id
    /\ live' = live \cup {<<"sampler", lc.id>>}
    /\ LcReturnLoad("load_true", "none")
    /\ UNCHANGED << g_model, g_ctx, g_vocab, g_batch, g_batch_initialized,
                    badFree, relBy, ctxParams, planVars, epochVars, envVars,
                    crashed, gen, obs, nCalls, uafBy, cancel >>

\* ---- stopGeneration (347-353) and the same statement of unloadModel ----
\* a stop request counts for the generation that was running when the call
\* was made, from the moment the call has stored the id
CancelAfterStore ==
    IF lc.gid # 0 /\ \E t \in Callers :
                        gen[t].pc # "idle" /\ gen[t].local_id = lc.gid
    THEN [id |-> lc.gid, iters |-> 0]
    ELSE cancel

StopCall ==
    /\ CanCall /\ lc.pc = "idle"
    /\ lc' = [IdleLc EXCEPT !.pc = "S_ld", !.gid = ActiveLocalId]
    /\ nCalls' = nCalls + 1
    /\ UNCHANGED << sessionVars, planVars, epochVars, envVars, crashed, gen,
                    obs, uafBy, cancel >>

\* mutant: the stop request is addressed to the next generation
StopLoadNextId ==
    /\ LcAt("S_ld")
    /\ lc' = [lc EXCEPT !.pc = "S_st", !.stopId = g_generation_id + 1,
                        !.ldActive = ActiveLocalId]
    /\ UNCHANGED << sessionVars, planVars, epochVars, envVars, crashed, gen,
                    obs, nCalls, uafBy, cancel >>

\* 352: g_generation_id.load(); ldActive notes the generation running at
\* this read
StopLoadId ==
    /\ LcAt("S_ld")
    /\ lc' = [lc EXCEPT !.pc = "S_st", !.stopId = g_generation_id,
                        !.ldActive = ActiveLocalId]
    /\ UNCHANGED << sessionVars, planVars, epochVars, envVars, crashed, gen,
                    obs, nCalls, uafBy, cancel >>

\* 352: g_stop_generation_id.store(...)
StopStoreId ==
    /\ LcAt("S_st")
    /\ g_stop_generation_id' = lc.stopId
    /\ cancel' = CancelAfterStore
    /\ LcReturn("stop")
    /\ UNCHANGED << sessionVars, planVars, g_is_generating, g_generation_id,
                    envVars, crashed, gen, obs, nCalls, uafBy >>

\* ---- unloadModel (304-337) ----
UnloadCall ==
    /\ CanCallLoadUnload /\ lc.pc = "idle"
    /\ lc' = [IdleLc EXCEPT !.pc = "U_ld", !.gid = ActiveLocalId]
    /\ nCalls' = nCalls + 1
    /\ UNCHANGED << sessionVars, planVars, epochVars, envVars, crashed, gen,
                    obs, uafBy, cancel >>

\* 309: g_generation_id.load()
UnloadLoadId ==
    /\ LcAt("U_ld")
    /\ lc' = [lc EXCEPT !.pc = "U_st", !.stopId = g_generation_id]
    /\ UNCHANGED << sessionVars, planVars, epochVars, envVars, crashed, gen,
                    obs, nCalls, uafBy, cancel >>

\* 309: g_stop_generation_id.store(...)
UnloadStoreId ==
    /\ LcAt("U_st")
    /\ g_stop_generation_id' = lc.stopId
    /\ LcGoto("U_copy")
    /\ UNCHANGED << sessionVars, planVars, g_is_generating, g_generation_id,
                    envVars, crashed, gen, obs, nCalls, uafBy, cancel >>

\* 312-315
UnloadCopyHandles ==
    /\ LcAt("U_copy")
    /\ lc' = [lc EXCEPT !.pc = "U_nvocab",
                        !.batch_copy = g_batch_initialized,
                        !.sampler_copy = g_sampler,
                        !.ctx_copy = g_ctx,
                        !.model_copy = g_model]
    /\ UNCHANGED << sessionVars, planVars, epochVars, envVars, crashed, gen,
                    obs, nCalls, uafBy, cancel >>

\* 317
UnloadNullVocab ==
    /\ LcAt("U_nvocab")
    /\ g_vocab' = 0
    /\ relBy' = IF g_vocab # 0 THEN [relBy EXCEPT !["vocab"] = ReleasedBy("unload")] ELSE relBy
    /\ LcGoto("U_nsampler")
    /\ UNCHANGED << g_model, g_ctx, g_sampler, g_batch, g_batch_initialized,
                    live, badFree, ctxParams, planVars, epochVars, envVars,
                    crashed, gen, obs, nCalls, uafBy, cancel >>

\* 318
UnloadNullSampler ==
    /\ LcAt("U_nsampler")
    /\ g_sampler' = 0
    /\ relBy' = IF g_sampler # 0 THEN [relBy EXCEPT !["sampler"] = ReleasedBy("unload")] ELSE relBy
    /\ LcGoto("U_nctx")
    /\ UNCHANGED << g_model, g_ctx, g_vocab, g_batch, g_batch_initialized,
                    live, badFree, ctxParams, planVars, epochVars, envVars,
                    crashed, gen, obs, nCalls, uafBy, cancel >>

\* 319
UnloadNullCtx ==
    /\ LcAt("U_nctx")
    /\ g_ctx' = 0
    /\ relBy' = IF g_ctx # 0 THEN [relBy EXCEPT !["ctx"] = ReleasedBy("unload")] ELSE relBy
    /\ LcGoto("U_nmodel")
    /\ UNCHANGED << g_model, g_sampler, g_vocab, g_batch,
                    g_batch_initialized, live, badFree, ctxParams, planVars,
                    epochVars, envVars, crashed, gen, obs, nCalls, uafBy,
                    cancel >>

\* 320
UnloadNullModel ==
    /\ LcAt("U_nmodel")
    /\ g_model' = 0
    /\ relBy' = IF g_model # 0 THEN [relBy EXCEPT !["model"] = ReleasedBy("unload")] ELSE relBy
    /\ LcGoto("U_fbatch")
    /\ UNCHANGED << g_ctx, g_sampler, g_vocab, g_batch, g_batch_initialized,
                    live, badFree, ctxParams, planVars, epochVars, envVars,
                    crashed, gen, obs, nCalls, uafBy, cancel >>

\* mutant: the batch buffer is freed whether or not it is allocated
UnloadFreeBatchUnguarded ==
    /\ LcAt("U_fbatch")
    /\ live' = FreeIn(live, "batch", g_batch.mem)
    /\ badFree' = (badFree \/ IsBadFree(live, "batch", g_batch.mem))
    /\ g_batch_initialized' = FALSE
    /\ relBy' = [relBy EXCEPT !["batch"] = ReleasedBy("unload")]
    /\ LcGoto("U_fsampler")
    /\ UNCHANGED << g_model, g_ctx, g_sampler, g_vocab, g_batch, ctxParams,
                    planVars, epochVars, envVars, crashed, gen, obs, nCalls,
                    uafBy, cancel >>

\* 322-325
UnloadFreeBatch ==
    /\ LcAt("U_fbatch")
    /\ IF g_batch_initialized
       THEN /\ live' = FreeIn(live, "batch", g_batch.mem)
            /\ badFree' = (badFree \/ IsBadFree(live, "batch", g_batch.mem))
            /\ g_batch_initialized' = FALSE
            /\ relBy' = [relBy EXCEPT !["batch"] = ReleasedBy("unload")]
       ELSE UNCHANGED << live, badFree, g_batch_initialized, relBy >>
    /\ LcGoto("U_fsampler")
    /\ UNCHANGED << g_model, g_ctx, g_sampler, g_vocab, g_batch, ctxParams,
                    planVars, epochVars, envVars, crashed, gen, obs, nCalls,
                    uafBy, cancel >>

\* 326-328
UnloadFreeSampler ==
    /\ LcAt("U_fsampler")
    /\ IF lc.sampler_copy # 0
       THEN /\ live' = FreeIn(live, "sampler", lc.sampler_copy)
            /\ badFree' = (badFree \/ IsBadFree(live, "sampler", lc.sampler_copy))
       ELSE UNCHANGED << live, badFree >>
    /\ LcGoto("U_fctx")
    /\ UNCHANGED << g_model, g_ctx, g_sampler, g_vocab, g_batch,
                    g_batch_initialized, relBy, ctxParams, planVars, epochVars,
                    envVars, crashed, gen, obs, nCalls, uafBy, cancel >>

\* 329-331
UnloadFreeCtx ==
    /\ LcAt("U_fctx")
    /\ IF lc.ctx_copy # 0
       THEN /\ live' = FreeIn(live, "ctx", lc.ctx_copy)
            /\ badFree' = (badFree \/ IsBadFree(live, "ctx", lc.ctx_copy))
       ELSE UNCHANGED << live, badFree >>
    /\ LcGoto("U_fmodel")
    /\ UNCHANGED << g_model, g_ctx, g_sampler, g_vocab, g_batch,
                    g_batch_initialized, relBy, ctxParams, planVars, epochVars,
                    envVars, crashed, gen, obs, nCalls, uafBy, cancel >>

\* 332-337
UnloadFreeModel ==
    /\ LcAt("U_fmodel")
    /\ IF lc.model_copy # 0
       THEN /\ live' = FreeIn(live, "model", lc.model_copy)
            /\ badFree' = (badFree \/ IsBadFree(live, "model", lc.model_copy))
       ELSE UNCHANGED << live, badFree >>
    /\ LcReturn("unload")
    /\ UNCHANGED << g_model, g_ctx, g_sampler, g_vocab, g_batch,
                    g_batch_initialized, relBy, ctxParams, planVars, epochVars,
                    envVars, crashed, gen, obs, nCalls, uafBy, cancel >>

LifecycleStep ==
    \/ LoadCall \/ LoadFreeBatch \/ LoadFreeSampler \/ LoadFreeCtx
    \/ LoadFreeModel \/ LoadNullVocab \/ LoadApplyDeviceConfig
    \/ LoadModelFromFile \/ LoadGetVocab \/ LoadCapContext
    \/ LoadCreateContext \/ LoadParamGate \/ LoadQuantGate \/ LoadInitBatch
    \/ LoadInitSampler
    \/ StopCall \/ StopLoadId \/ StopStoreId
    \/ UnloadCall \/ UnloadLoadId \/ UnloadStoreId \/ UnloadCopyHandles
    \/ UnloadNullVocab \/ UnloadNullSampler \/ UnloadNullCtx
    \/ UnloadNullModel \/ UnloadFreeBatch \/ UnloadFreeSampler
    \/ UnloadFreeCtx \/ UnloadFreeModel


(***************************************************************************)
(* generate (llama_jni.cpp:358-510), one action per shared read or write.  *)
(***************************************************************************)
GenAt(t, p) == ~crashed /\ gen[t].pc = p
GenSet(t, r) == gen' = [gen EXCEPT ![t] = r]
GenGoto(t, p) == gen' = [gen EXCEPT ![t].pc = p]
\* return from the call: the locals die, the result stays
GenReturn(t, r) ==
    /\ gen' = [gen EXCEPT ![t] = [IdleGen EXCEPT !.ret = r]]
    /\ obs' = [obs EXCEPT ![t] = IdleObs]

Handle(k) ==
    CASE k = "model" -> g_model
      [] k = "ctx" -> g_ctx
      [] k = "sampler" -> g_sampler
      [] k = "vocab" -> g_vocab
      [] k = "batch" -> g_batch.mem
IsNull(k) == Handle(k) = 0
Alive(k) ==
    /\ Handle(k) # 0
    /\ << (IF k = "vocab" THEN "model" ELSE k), Handle(k) >> \in live
BadKinds(U) == {k \in U : ~Alive(k)}
\* whose release the call in slot t runs into when it uses the kinds U
BlameFor(t, k) ==
    LET inFlight == relBy[k].gid # 0 /\ relBy[k].gid = gen[t].local_id
    IN  CASE relBy[k].by = "none" -> "unbuilt"
          [] relBy[k].by = "unload" ->
                IF inFlight THEN "unload" ELSE "unload_admitted_later"
          [] relBy[k].by = "load" ->
                IF inFlight THEN "load" ELSE "load_admitted_later"
Blame(t, U) == {BlameFor(t, k) : k \in BadKinds(U)}

\* the step dereferences an absent or released resource and the process dies
Crash(t, U) ==
    /\ BadKinds(U) # {}
    /\ crashed' = TRUE
    /\ uafBy' = uafBy \cup Blame(t, U)
    /\ UNCHANGED << sessionVars, planVars, epochVars, envVars, lc, gen, obs,
                    nCalls, cancel >>
\* the step goes on: no handle it uses is nullptr
Proceed(t, U) ==
    /\ \A k \in U : ~IsNull(k)
    /\ uafBy' = uafBy \cup Blame(t, U)
    /\ UNCHANGED crashed

\* count a loop iteration begun by a generation whose stop request returned
CountIteration(t) ==
    IF cancel.id # 0 /\ cancel.id = gen[t].local_id
    THEN [cancel EXCEPT !.iters = Min2(2, cancel.iters + 1)]
    ELSE cancel

GenCall(t) ==
    /\ CanCallGenerate /\ gen[t].pc = "idle"
    /\ (t = 2 => gen[1].pc # "idle")
    /\ \E maxTokens \in ReqMaxTokens(client) :
          GenSet(t, [IdleGen EXCEPT !.pc = "chk_model", !.reqMax = maxTokens,
                                    !.ret = gen[t].ret])
    /\ obs' = [obs EXCEPT ![t] = IdleObs]
    /\ nCalls' = nCalls + 1
    /\ UNCHANGED << sessionVars, planVars, epochVars, envVars, crashed, lc,
                    uafBy, cancel >>

\* 366-368: the four operands of the loaded check, read one after the other
LoadedCheckStep(t, p, absent, next) ==
    /\ GenAt(t, p)
    /\ IF absent
       THEN GenReturn(t, "not_loaded")
       ELSE GenGoto(t, next) /\ UNCHANGED obs
    /\ UNCHANGED << sessionVars, planVars, epochVars, envVars, crashed, lc,
                    nCalls, uafBy, cancel >>

GenCheckModel(t) == LoadedCheckStep(t, "chk_model", g_model = 0, "chk_ctx")
GenCheckCtx(t) == LoadedCheckStep(t, "chk_ctx", g_ctx = 0, "chk_vocab")
GenCheckVocab(t) == LoadedCheckStep(t, "chk_vocab", g_vocab = 0, "chk_batch")
GenCheckBatch(t) ==
    LoadedCheckStep(t, "chk_batch", ~g_batch_initialized, "xchg")

\* mutant: the flag is stored without testing its previous value
GenExchangeStoresOnly(t) ==
    /\ GenAt(t, "xchg")
    /\ g_is_generating' = TRUE
    /\ GenGoto(t, "mint") /\ UNCHANGED obs
    /\ UNCHANGED << sessionVars, planVars, g_generation_id,
                    g_stop_generation_id, envVars, crashed, lc, nCalls, uafBy,
                    cancel >>

\* 370-372: g_is_generating.exchange(true)
GenExchange(t) ==
    /\ GenAt(t, "xchg")
    /\ g_is_generating' = TRUE
    /\ IF g_is_generating
       THEN GenReturn(t, "already")
       ELSE GenGoto(t, "mint") /\ UNCHANGED obs
    /\ UNCHANGED << sessionVars, planVars, g_generation_id,
                    g_stop_generation_id, envVars, crashed, lc, nCalls, uafBy,
                    cancel >>

\* 374: g_generation_id.fetch_add(1) + 1
GenMint(t) ==
    /\ GenAt(t, "mint")
    /\ g_generation_id' = g_generation_id + 1
    /\ gen' = [gen EXCEPT ![t].pc = "clr",
                          ![t].local_id = g_generation_id + 1]
    /\ UNCHANGED << sessionVars, planVars, g_is_generating,
                    g_stop_generation_id, envVars, crashed, lc, obs, nCalls,
                    uafBy, cancel >>

\* 375: g_stop_generation_id.store(0)
GenClearStop(t) ==
    /\ GenAt(t, "clr")
    /\ g_stop_generation_id' = 0
    /\ GenGoto(t, "clamp")
    /\ UNCHANGED << sessionVars, planVars, g_is_generating, g_generation_id,
                    envVars, crashed, lc, obs, nCalls, uafBy, cancel >>

\* 383-384
ClampMaxTokens(maxTokens, cap) ==
    LET m == IF maxTokens > cap THEN cap ELSE maxTokens
    IN  IF m < 1 THEN 1 ELSE m

\* 382-395: clamp, then resolve the callback's onToken method
GenClamp(t) ==
    /\ GenAt(t, "clamp")
    /\ \E callbackFound \in BOOLEAN :
          IF ~callbackFound
          THEN /\ g_is_generating' = FALSE
               /\ GenReturn(t, "cb_unavail")
          ELSE /\ gen' = [gen EXCEPT
                     ![t].pc = "tok",
                     ![t].maxTokens =
                         ClampMaxTokens(gen[t].reqMax, g_max_gen_tokens)]
               /\ UNCHANGED << g_is_generating, obs >>
    /\ UNCHANGED << sessionVars, planVars, g_generation_id,
                    g_stop_generation_id, envVars, crashed, lc, nCalls, uafBy,
                    cancel >>

\* 109-127, 397-406: tokenize_prompt returns {} without a vocabulary or when
\* the tokenizer fails; the prompt's tokens are numbered 1..n
GenTokenize(t) ==
    /\ GenAt(t, "tok")
    /\ \/ /\ g_vocab # 0
          /\ Crash(t, {"vocab"})
       \/ /\ g_vocab = 0
          /\ g_is_generating' = FALSE
          /\ GenReturn(t, "tok_fail")
          /\ UNCHANGED << sessionVars, planVars, g_generation_id,
                          g_stop_generation_id, envVars, crashed, lc, nCalls,
                          uafBy, cancel >>
       \/ /\ g_vocab # 0
          /\ Proceed(t, {"vocab"})
          /\ \E n \in PromptLens(client) :
                IF n = 0
                THEN /\ g_is_generating' = FALSE
                     /\ GenReturn(t, "tok_fail")
                ELSE /\ gen' = [gen EXCEPT ![t].pc = "memclr",
                                          ![t].tokens = [i \in 1..n |-> i],
                                          ![t].n_prompt = n]
                     /\ obs' = [obs EXCEPT ![t].orig = [i \in 1..n |-> i]]
                     /\ UNCHANGED g_is_generating
          /\ UNCHANGED << sessionVars, planVars, g_generation_id,
                          g_stop_generation_id, envVars, lc, nCalls, cancel >>

\* 408-412: llama_get_memory(g_ctx), llama_memory_clear
GenClearMemory(t) ==
    /\ GenAt(t, "memclr")
    /\ \/ Crash(t, {"ctx"})
       \/ /\ Proceed(t, {"ctx"})
          /\ GenGoto(t, "trunc")
          /\ obs' = [obs EXCEPT ![t].fed = << >>, ![t].logits = FALSE]
          /\ UNCHANGED << sessionVars, planVars, epochVars, envVars, lc,
                          nCalls, cancel >>

\* mutant: the tail is erased instead of the head
TruncatePromptKeepsHead(tokens, max_prompt) ==
    IF Len(tokens) > max_prompt
    THEN SubSeq(tokens, 1, max_prompt)
    ELSE tokens

\* 417: tokens.erase(begin, begin + (n_prompt - max_prompt))
TruncatePrompt(tokens, max_prompt) ==
    IF Len(tokens) > max_prompt
    THEN SubSeq(tokens, Len(tokens) - max_prompt + 1, Len(tokens))
    ELSE tokens

\* 414-423
GenTruncate(t) ==
    /\ GenAt(t, "trunc")
    /\ LET max_prompt == Max2(0, g_context_size - gen[t].maxTokens - 16)
           kept == TruncatePrompt(gen[t].tokens, max_prompt)
       IN  gen' = [gen EXCEPT ![t].pc = "pf_chk",
                              ![t].tokens = kept,
                              ![t].n_prompt = Len(kept),
                              ![t].n_processed = 0]
    /\ obs' = [obs EXCEPT ![t].ctxAtTrunc = g_context_size]
    /\ UNCHANGED << sessionVars, planVars, epochVars, envVars, crashed, lc,
                    nCalls, uafBy, cancel >>

\* mutant: the prompt loop does not look at stop_id
PrefillIgnoresStop(t) ==
    gen[t].n_processed < gen[t].n_prompt

\* 425: the condition of the prompt loop
PrefillContinues(t) ==
    /\ gen[t].n_processed < gen[t].n_prompt
    /\ g_stop_generation_id # gen[t].local_id

GenPrefillCheck(t) ==
    /\ GenAt(t, "pf_chk")
    /\ IF PrefillContinues(t)
       THEN GenGoto(t, "pf_fill") /\ cancel' = CountIteration(t)
       ELSE GenGoto(t, "pf_post") /\ UNCHANGED cancel
    /\ UNCHANGED << sessionVars, planVars, epochVars, envVars, crashed, lc,
                    obs, nCalls, uafBy >>

\* 132-144: batch_clear, batch_add
batch_add(entries, token, pos, logits) ==
    Append(entries, [token |-> token, pos |-> pos, logits |-> logits])

\* the batch's last entry requests logits
LastWantsLogits(entries) ==
    entries # << >> /\ entries[Len(entries)].logits

\* 428-434: the chunk starting at n_processed
PromptChunk(tokens, n_processed, n_batch, n_prompt) ==
    [i \in 1..n_batch |->
        LET pos == n_processed + (i - 1)
        IN  [token |-> tokens[pos + 1], pos |-> pos,
             logits |-> (pos = n_prompt - 1)]]

\* 426-434
GenPrefillFill(t) ==
    /\ GenAt(t, "pf_fill")
    /\ \/ Crash(t, {"batch"})
       \/ /\ Proceed(t, {"batch"})
          /\ LET n_batch ==
                     Min2(g_batch_size, gen[t].n_prompt - gen[t].n_processed)
             IN  /\ g_batch' = [g_batch EXCEPT !.entries =
                        PromptChunk(gen[t].tokens, gen[t].n_processed,
                                    n_batch, gen[t].n_prompt)]
                 /\ gen' = [gen EXCEPT ![t].pc = "pf_dec",
                                       ![t].n_batch = n_batch]
          /\ UNCHANGED << g_model, g_ctx, g_sampler, g_vocab,
                          g_batch_initialized, live, badFree, relBy,
                          ctxParams, planVars, epochVars, envVars, lc, obs,
                          nCalls, cancel >>

\* mutant: the error path returns with the generating flag still set
FailPromptEvalKeepsFlag(t) ==
    /\ UNCHANGED g_is_generating
    /\ GenReturn(t, "prompt_fail")

\* mutant: a failed prompt decode is treated like a failed decode step
\* (line 497): the call leaves through 505-509 with the text so far
FailPromptEvalAsDecodeStep(t) ==
    /\ GenGoto(t, "fin")
    /\ UNCHANGED << g_is_generating, obs >>

\* 437-440: the error path of the prompt decode
FailPromptEval(t) ==
    /\ g_is_generating' = FALSE
    /\ GenReturn(t, "prompt_fail")

\* 436-443
GenPrefillDecode(t) ==
    /\ GenAt(t, "pf_dec")
    /\ \/ Crash(t, {"ctx", "batch"})
       \/ /\ Proceed(t, {"ctx", "batch"})
          /\ \E decoded \in BOOLEAN :
                IF ~decoded
                THEN FailPromptEval(t)
                ELSE /\ gen' = [gen EXCEPT
                           ![t].pc = "pf_chk",
                           ![t].n_processed =
                               gen[t].n_processed + gen[t].n_batch]
                     /\ obs' = [obs EXCEPT
                           ![t].evald =
                               obs[t].evald \o
                               [i \in 1..Len(g_batch.entries) |->
                                   g_batch.entries[i].token],
                           ![t].fed = obs[t].fed \o g_batch.entries,
                           ![t].logits = LastWantsLogits(g_batch.entries)]
                     /\ UNCHANGED g_is_generating
          /\ UNCHANGED << sessionVars, planVars, g_generation_id,
                          g_stop_generation_id, envVars, lc, nCalls, cancel >>

\* 446-450
GenPrefillPost(t) ==
    /\ GenAt(t, "pf_post")
    /\ IF g_stop_generation_id = gen[t].local_id
       THEN /\ g_is_generating' = FALSE
            /\ GenReturn(t, "cancelled")
       ELSE /\ GenGoto(t, "reset")
            /\ UNCHANGED << g_is_generating, obs >>
    /\ UNCHANGED << sessionVars, planVars, g_generation_id,
                    g_stop_generation_id, envVars, crashed, lc, nCalls, uafBy,
                    cancel >>

\* 455-462
GenSamplerReset(t) ==
    /\ GenAt(t, "reset")
    /\ \/ Crash(t, {"sampler"})
       \/ /\ Proceed(t, {"sampler"})
          /\ gen' = [gen EXCEPT ![t].pc = "tk_chk",
                                ![t].response = << >>,
                                ![t].n_cur = gen[t].n_prompt,
                                ![t].n_generated = 0]
          /\ UNCHANGED << sessionVars, planVars, epochVars, envVars, lc, obs,
                          nCalls, cancel >>

\* mutant: the token count is compared with <= instead of <
TokenLoopOffByOne(t) ==
    /\ gen[t].n_generated <= gen[t].maxTokens
    /\ gen[t].n_cur < g_context_size
    /\ g_stop_generation_id # gen[t].local_id

\* 464: the condition of the token loop
TokenLoopContinues(t) ==
    /\ gen[t].n_generated < gen[t].maxTokens
    /\ gen[t].n_cur < g_context_size
    /\ g_stop_generation_id # gen[t].local_id

GenTokenCheck(t) ==
    /\ GenAt(t, "tk_chk")
    /\ IF TokenLoopContinues(t)
       THEN GenGoto(t, "tk_sample") /\ cancel' = CountIteration(t)
       ELSE GenGoto(t, "fin") /\ UNCHANGED cancel
    /\ UNCHANGED << sessionVars, planVars, epochVars, envVars, crashed, lc,
                    obs, nCalls, uafBy >>

\* the backend's token stream: the k-th token sampled in a call is 100 + k,
\* unless the model ends the sequence there (token 0)
StreamToken(k) == 100 + k
llama_vocab_is_eog(token) == token = 0
\* llama_token_to_piece: every third token has an empty piece
TokenPiece(token) == IF token % 3 = 0 THEN << >> ELSE << token >>

\* llama_sampler_sample(g_sampler, g_ctx, -1) reads the logits of the last
\* decode; when the context holds none the read is outside the backend's
\* contract: the process dies here, or the sampler goes on with what it
\* finds
NoLogitsCrash(t) ==
    /\ ~obs[t].logits
    /\ \A k \in {"sampler", "ctx"} : Alive(k)
    /\ crashed' = TRUE
    /\ uafBy' = uafBy \cup {"no_logits"}
    /\ UNCHANGED << sessionVars, planVars, epochVars, envVars, lc, gen, obs,
                    nCalls, cancel >>

\* 466
GenSample(t) ==
    /\ GenAt(t, "tk_sample")
    /\ \/ Crash(t, {"sampler", "ctx"})
       \/ NoLogitsCrash(t)
       \/ /\ Proceed(t, {"sampler", "ctx"})
          /\ \E eos \in {FALSE} \cup {e \in {TRUE} : gen[t].n_generated < MaxEventStep} :
                gen' = [gen EXCEPT
                    ![t].pc = "tk_piece",
                    ![t].new_token =
                        IF eos THEN 0
                        ELSE StreamToken(gen[t].n_generated + 1)]
          /\ obs' = [obs EXCEPT ![t].sampled = obs[t].sampled + 1]
          /\ UNCHANGED << sessionVars, planVars, epochVars, envVars, lc,
                          nCalls, cancel >>

\* mutant: the fragment is appended to the response but the callback is not
\* invoked
GenPieceSilent(t) ==
    /\ GenAt(t, "tk_piece")
    /\ \/ Crash(t, {"vocab"})
       \/ /\ Proceed(t, {"vocab"})
          /\ IF llama_vocab_is_eog(gen[t].new_token)
             THEN GenGoto(t, "fin") /\ UNCHANGED obs
             ELSE /\ gen' = [gen EXCEPT
                        ![t].pc = "tk_batch",
                        ![t].response =
                            gen[t].response \o TokenPiece(gen[t].new_token)]
                  /\ obs' = [obs EXCEPT ![t].converted =
                                 obs[t].converted + 1]
          /\ UNCHANGED << sessionVars, planVars, epochVars, envVars, lc,
                          nCalls, cancel >>

\* mutant: the fragment is put in front of the accumulated response
GenPiecePrepends(t) ==
    /\ GenAt(t, "tk_piece")
    /\ \/ Crash(t, {"vocab"})
       \/ /\ Proceed(t, {"vocab"})
          /\ IF llama_vocab_is_eog(gen[t].new_token)
             THEN GenGoto(t, "fin") /\ UNCHANGED obs
             ELSE LET token_str == TokenPiece(gen[t].new_token)
                      n == Len(token_str)
                  IN  IF n > 0
                      THEN /\ gen' = [gen EXCEPT
                                 ![t].pc = "tk_batch",
                                 ![t].response = token_str \o gen[t].response]
                           /\ obs' = [obs EXCEPT
                                 ![t].delivered =
                                     Append(obs[t].delivered, token_str),
                                 ![t].converted = obs[t].converted + 1]
                      ELSE /\ GenGoto(t, "tk_batch")
                           /\ obs' = [obs EXCEPT ![t].converted =
                                          obs[t].converted + 1]
          /\ UNCHANGED << sessionVars, planVars, epochVars, envVars, lc,
                          nCalls, cancel >>

\* 468-490
GenPiece(t) ==
    /\ GenAt(t, "tk_piece")
    /\ \/ Crash(t, {"vocab"})
       \/ /\ Proceed(t, {"vocab"})
          /\ IF llama_vocab_is_eog(gen[t].new_token)
             THEN GenGoto(t, "fin") /\ UNCHANGED obs
             ELSE LET token_str == TokenPiece(gen[t].new_token)
                      n == Len(token_str)
                  IN  IF n > 0
                      THEN /\ gen' = [gen EXCEPT
                                 ![t].pc = "tk_batch",
                                 ![t].response = gen[t].response \o token_str]
                           /\ obs' = [obs EXCEPT
                                 ![t].delivered =
                                     Append(obs[t].delivered, token_str),
                                 ![t].converted = obs[t].converted + 1]
                      ELSE /\ GenGoto(t, "tk_batch")
                           /\ obs' = [obs EXCEPT ![t].converted =
                                          obs[t].converted + 1]
          /\ UNCHANGED << sessionVars, planVars, epochVars, envVars, lc,
                          nCalls, cancel >>

\* mutant: the generated token is placed one position too far
GenTokenBatchSkipsPosition(t) ==
    /\ GenAt(t, "tk_batch")
    /\ \/ Crash(t, {"batch"})
       \/ /\ Proceed(t, {"batch"})
          /\ g_batch' = [g_batch EXCEPT !.entries =
                 batch_add(<< >>, gen[t].new_token, gen[t].n_cur + 1, TRUE)]
          /\ GenGoto(t, "tk_dec")
          /\ UNCHANGED << g_model, g_ctx, g_sampler, g_vocab,
                          g_batch_initialized, live, badFree, relBy,
                          ctxParams, planVars, epochVars, envVars, lc, obs,
                          nCalls, cancel >>

\* 492-494
GenTokenBatch(t) ==
    /\ GenAt(t, "tk_batch")
    /\ \/ Crash(t, {"batch"})
       \/ /\ Proceed(t, {"batch"})
          /\ g_batch' = [g_batch EXCEPT !.entries =
                 batch_add(<< >>, gen[t].new_token, gen[t].n_cur, TRUE)]
          /\ GenGoto(t, "tk_dec")
          /\ UNCHANGED << g_model, g_ctx, g_sampler, g_vocab,
                          g_batch_initialized, live, badFree, relBy,
                          ctxParams, planVars, epochVars, envVars, lc, obs,
                          nCalls, cancel >>

\* 496-503
GenTokenDecode(t) ==
    /\ GenAt(t, "tk_dec")
    /\ \/ Crash(t, {"ctx", "batch"})
       \/ /\ Proceed(t, {"ctx", "batch"})
          /\ \E decoded \in {TRUE} \cup {d \in {FALSE} : gen[t].n_generated < MaxEventStep} :
                /\ obs' = [obs EXCEPT
                       ![t].nSubmit = obs[t].nSubmit + 1,
                       ![t].fed = obs[t].fed \o g_batch.entries,
                       ![t].logits =
                           decoded /\ LastWantsLogits(g_batch.entries)]
                /\ IF ~decoded
                   THEN GenGoto(t, "fin")
                   ELSE gen' = [gen EXCEPT
                            ![t].pc = "tk_chk",
                            ![t].n_cur = gen[t].n_cur + 1,
                            ![t].n_generated = gen[t].n_generated + 1]
          /\ UNCHANGED << sessionVars, planVars, epochVars, envVars, lc,
                          nCalls, cancel >>

\* 505-509
GenFinish(t) ==
    /\ GenAt(t, "fin")
    /\ g_is_generating' = FALSE
    /\ GenReturn(t, "ok")
    /\ UNCHANGED << sessionVars, planVars, g_generation_id,
                    g_stop_generation_id, envVars, crashed, lc, nCalls, uafBy,
                    cancel >>

GenerateStep(t) ==
    \/ GenCall(t)
    \/ GenCheckModel(t) \/ GenCheckCtx(t) \/ GenCheckVocab(t)
    \/ GenCheckBatch(t) \/ GenExchange(t) \/ GenMint(t) \/ GenClearStop(t)
    \/ GenClamp(t) \/ GenTokenize(t) \/ GenClearMemory(t) \/ GenTruncate(t)
    \/ GenPrefillCheck(t) \/ GenPrefillFill(t) \/ GenPrefillDecode(t)
    \/ GenPrefillPost(t) \/ GenSamplerReset(t) \/ GenTokenCheck(t)
    \/ GenSample(t) \/ GenPiece(t) \/ GenTokenBatch(t) \/ GenTokenDecode(t)
    \/ GenFinish(t)

Next == LifecycleStep \/ \E t \in Callers : GenerateStep(t)

Spec == Init /\ [][Next]_vars
SerialSpec == InitSerial /\ [][Next]_vars
CancelSpec == InitCancel /\ [][Next]_vars
\* a thread inside a generate call keeps being scheduled
RunningStep(t) == gen[t].pc # "idle" /\ GenerateStep(t)
FairCancelSpec == CancelSpec /\ \A t \in Callers : WF_vars(RunningStep(t))
\* the lifecycle entry points alone, on every device
PlanSpec == InitPlan /\ [][LifecycleStep]_vars


(***************************************************************************)
(* Properties.                                                             *)
(***************************************************************************)
BeforeGate == {"idle", "chk_model", "chk_ctx", "chk_vocab", "chk_batch", "xchg"}
\* the call holds the generating flag: it is in the Generating state
Admitted(t) == gen[t].pc \notin BeforeGate
LoadPcs ==
    {"L_batch", "L_sampler", "L_ctx", "L_model", "L_vocab", "L_cfg", "L_load",
     "L_getvocab", "L_cap", "L_ctxnew", "L_params", "L_quant", "L_binit",
     "L_sinit"}
UnloadPcs ==
    {"U_ld", "U_st", "U_copy", "U_nvocab", "U_nsampler", "U_nctx", "U_nmodel",
     "U_fbatch", "U_fsampler", "U_fctx", "U_fmodel"}
SessionAbsent ==
    /\ g_model = 0 /\ g_vocab = 0 /\ g_ctx = 0 /\ g_sampler = 0
    /\ ~g_batch_initialized
SessionPresent ==
    /\ Alive("model") /\ Alive("vocab") /\ Alive("ctx") /\ Alive("sampler")
    /\ g_batch_initialized /\ Alive("batch")

\* C1: at most one generate call is in the Generating state at any instant,
\* and a call that reaches the gate while another call holds it is rejected
\* as "already in progress" in that very step, which changes neither
\* generation_id, nor stop_id, nor the generating flag, nor any session
\* resource, nor the call that holds the gate.
C1_SingleGeneration ==
    [][ /\ Cardinality({t \in Callers : Admitted(t)'}) <= 1
        /\ \A t \in Callers :
              ( /\ gen[t].pc = "xchg" /\ gen'[t].pc # "xchg"
                /\ \E u \in Callers \ {t} : Admitted(u) )
              => /\ gen'[t].pc = "idle" /\ gen'[t].ret = "already"
                 /\ UNCHANGED << epochVars, sessionVars >>
                 /\ \A u \in Callers \ {t} : gen'[u] = gen[u] ]_vars

\* a second call has been rejected while the first is still generating
C1_Witness ==
    /\ gen[2].pc = "idle" /\ gen[2].ret = "already"
    /\ gen[1].pc = "tk_sample" /\ g_is_generating

\* C2: a stopGeneration() call made after a generate call has minted its id
\* and returning before that call completes is observed within one loop
\* iteration: the generation begins at most one further prefill chunk or
\* token iteration after the stop call has returned.
C2_CancelObserved == cancel.iters <= 1

\* C3: a generation in flight during unloadModel() never uses a resource
\* that unloadModel has nulled or freed, and once both calls have returned
\* isModelLoaded() and isGenerating() are false.
C3_UnloadSafe ==
    /\ "unload" \notin uafBy
    /\ ( /\ lc.pc = "idle" /\ lc.ret = "unload"
         /\ \A t \in Callers : gen[t].pc = "idle" )
       => (~isModelLoaded /\ ~isGenerating)

\* C4: no generate call passes its loaded check between the start and the
\* return of a loadModel or unloadModel call.
C4_NoAdmissionDuringLifecycle ==
    [][ \A t \in Callers :
          (gen[t].pc = "chk_batch" /\ gen'[t].pc = "xchg")
          => lc.pc \notin (LoadPcs \cup UnloadPcs) ]_vars

\* C5: when loadModel has returned false, whatever the cause and whether or
\* not a session was loaded before, model, vocabulary, context, sampler and
\* batch buffer are absent, nothing is left allocated, nothing was freed
\* twice, and isModelLoaded() is false.
C5_FailedLoadUnloads ==
    (lc.pc = "idle" /\ lc.ret = "load_false")
    => /\ SessionAbsent
       /\ live = {}
       /\ ~badFree
       /\ ~isModelLoaded

\* a load, not the first call of the run, was rejected by the quantization gate
C5_Witness ==
    /\ lc.pc = "idle" /\ lc.ret = "load_false" /\ lc.err = "quant"
    /\ nCalls >= 2 /\ relBy["sampler"].by = "load"

\* C6: in every state, vocabulary, context, sampler and batch buffer are all
\* present or all absent, and isModelLoaded, getModelInfo and the loaded
\* check of generate report "loaded" only for a fully constructed session.
C6_AllOrNothing ==
    /\ (g_vocab # 0 /\ g_ctx # 0 /\ g_sampler # 0 /\ g_batch_initialized)
       \/ (g_vocab = 0 /\ g_ctx = 0 /\ g_sampler = 0 /\ ~g_batch_initialized)
    /\ (isModelLoaded \/ getModelInfoNonEmpty \/ generateLoadedCheck)
       => SessionPresent

\* C7: the generating flag is set exactly while some generate call is past
\* the gate and has not returned: every exit path of an admitted call clears
\* it, and a call rejected as not-loaded or already-generating leaves it alone.
C7_FlagRestored ==
    g_is_generating <=> (\E t \in Callers : Admitted(t))

\* after a call failed in prompt evaluation, the next call is admitted
C7_Witness ==
    /\ gen[1].ret = "prompt_fail" /\ gen[1].pc = "mint"
    /\ gen[2].pc = "idle"

\* C8: when loadModel has returned true the session is fully loaded and
\* getContextSize() is min(requested, device plan, trained length), which is
\* also the size the context was created with.
C8_ContextSize ==
    (lc.pc = "idle" /\ lc.ret = "load_true")
    => LET plan == applyDeviceConfig(device.totalMB, device.cores)
           want == IF lc.nCtx <= plan.context_size /\ lc.nCtx <= lc.train
                   THEN lc.nCtx
                   ELSE IF plan.context_size <= lc.train
                        THEN plan.context_size
                        ELSE lc.train
       IN  /\ SessionPresent
           /\ isModelLoaded
           /\ getContextSize = want
           /\ ctxParams.n_ctx = want

\* loads capped by the request, by the device plan and by the model
C8_Witness ==
    /\ lc.pc = "idle" /\ lc.ret = "load_true"
    /\ lc.nCtx = 600 /\ lc.train = 4096 /\ getContextSize = kLowEndContext

\* C9: the effective limit of a generate call is max_tokens clamped to
\* [1, plan.max_generated_tokens], and neither the fragments delivered to the
\* callback nor the single-token decodes submitted exceed it.
EffectiveLimit(maxTokens) ==
    LET cap == applyDeviceConfig(device.totalMB, device.cores).max_gen_tokens
    IN  Max2(1, Min2(maxTokens, cap))

C9_TokenLimit ==
    \A t \in Callers :
        gen[t].pc \notin (BeforeGate \cup {"mint", "clr", "clamp"})
        => /\ gen[t].maxTokens = EffectiveLimit(gen[t].reqMax)
           /\ Len(obs[t].delivered) <= EffectiveLimit(gen[t].reqMax)
           /\ obs[t].nSubmit <= EffectiveLimit(gen[t].reqMax)
           /\ gen[t].n_generated <= EffectiveLimit(gen[t].reqMax)

\* a request above the cap ran until the cap stopped it
C9_Witness ==
    /\ gen[1].pc = "fin" /\ gen[1].reqMax = 1000
    /\ obs[1].nSubmit = kLowEndMaxGenTokens
    /\ gen[1].n_generated = kLowEndMaxGenTokens

AfterTruncate ==
    {"pf_chk", "pf_fill", "pf_dec", "pf_post", "reset", "tk_chk", "tk_sample",
     "tk_piece", "tk_batch", "tk_dec", "fin"}
PrefillDone ==
    {"reset", "tk_chk", "tk_sample", "tk_piece", "tk_batch", "tk_dec", "fin"}
Trailing(s, n) == SubSeq(s, Len(s) - n + 1, Len(s))

\* C10 as stated: a prompt longer than context_size - max_tokens - 16 is
\* evaluated as exactly its trailing context_size - max_tokens - 16 tokens,
\* a shorter one unchanged.
C10_TruncationAsStated ==
    \A t \in Callers :
        gen[t].pc \in PrefillDone
        => LET bound == g_context_size - gen[t].maxTokens - 16
           IN  IF Len(obs[t].orig) > bound
               THEN /\ Len(obs[t].evald) = bound
                    /\ obs[t].evald = Trailing(obs[t].orig, bound)
               ELSE obs[t].evald = obs[t].orig

\* C10, amended: a prompt longer than max(0, context_size - max_tokens - 16)
\* is evaluated as exactly its trailing max(0, context_size - max_tokens - 16)
\* tokens, in order; a shorter one unchanged.
C10_Truncation ==
    \A t \in Callers :
        LET bound == Max2(0, g_context_size - gen[t].maxTokens - 16)
            want == IF Len(obs[t].orig) > bound
                    THEN Trailing(obs[t].orig, bound)
                    ELSE obs[t].orig
        IN  /\ gen[t].pc \in AfterTruncate => gen[t].tokens = want
            /\ gen[t].pc \in PrefillDone => obs[t].evald = want

\* a 300-token prompt was cut to its last 240 tokens and evaluated
C10_Witness ==
    /\ gen[1].pc = "reset" /\ Len(obs[1].orig) = 300
    /\ Len(obs[1].evald) = 240
    /\ obs[1].evald[1] = 61 /\ obs[1].evald[240] = 300

\* the plan that applyDeviceConfig has just written is still in the globals
PlanJustApplied == lc.pc \in {"L_load", "L_getvocab", "L_cap"}
\* the stated table: (context, batch, max tokens) by total memory in MB
PlanRow(totalMB) ==
    CASE totalMB <= 3072 -> << 512, 128, 256 >>
      [] totalMB > 3072 /\ totalMB <= 4096 -> << 1024, 256, 384 >>
      [] totalMB > 4096 /\ totalMB <= 6144 -> << 1536, 256, 512 >>
      [] totalMB > 6144 /\ totalMB <= 8192 -> << 2048, 256, 512 >>
      [] OTHER -> << 2048, 256, 768 >>
TierCap(totalMB) == IF totalMB <= 3072 THEN 4 ELSE 8
\* the plan is the table's row for the device, on every load, and no
\* device with less memory is given a larger context or token cap
PlanTableAndMonotone ==
    /\ << g_context_size, g_batch_size, g_max_gen_tokens >>
           = PlanRow(device.totalMB)
    /\ \A m \in PlanDeviceMems :
           m <= device.totalMB =>
              /\ applyDeviceConfig(m, device.cores).context_size
                     <= g_context_size
              /\ applyDeviceConfig(m, device.cores).max_gen_tokens
                     <= g_max_gen_tokens

\* C11 as stated: the plan is the table's row, monotone in memory, and
\* thread_count <= min(logical_cores, tier_cap) on every device.
C11_PlanAsStated ==
    PlanJustApplied =>
        /\ PlanTableAndMonotone
        /\ g_n_threads <= Min2(device.cores, TierCap(device.totalMB))

\* C11, amended: the plan computed at load is the table's row for the
\* device's memory, its context and token cap never decrease as memory
\* increases, and thread_count = min(max(1, logical_cores), tier_cap): a
\* core count of zero or less is taken as one core.
C11_Plan ==
    PlanJustApplied =>
        /\ PlanTableAndMonotone
        /\ g_n_threads
              = Min2(Max2(1, device.cores), TierCap(device.totalMB))
        /\ g_n_threads >= 1

\* the second load on a 4096 MB device that reports no core count
C11_Witness ==
    /\ lc.pc = "L_load" /\ nCalls = 2
    /\ device = [totalMB |-> 4096, cores |-> 0]
    /\ g_n_threads = 1 /\ g_max_gen_tokens = 384 /\ g_context_size = 1024

\* the call in slot t has minted its id and has not returned
Minted(t) == gen[t].pc # "idle" /\ gen[t].local_id # 0
\* the stop call read generation_id while no generation was running, and
\* holds a value that is the id of no running generation
IdleStopHarmless ==
    (lc.pc = "S_st" /\ lc.ldActive = 0)
        => \A t \in Callers : Minted(t) => lc.stopId # gen[t].local_id

\* C12: a stopGeneration() whose read of generation_id happens while no
\* generation is running is a no-op: the id it holds and stores is never
\* the id of a generation running then or minted later (also when a
\* generation is admitted between its read and its store), its store
\* changes nothing but stop_id, and an id is never minted equal to the
\* stop_id left behind.
C12_IdleStopNoOp ==
    [][ /\ IdleStopHarmless /\ IdleStopHarmless'
        /\ (lc.pc = "S_st" /\ lc'.pc = "idle" /\ lc.ldActive = 0)
              => /\ UNCHANGED << sessionVars, planVars, g_is_generating,
                                 g_generation_id, gen, obs, crashed >>
                 /\ \A t \in Callers :
                       Minted(t) => g_stop_generation_id' # gen[t].local_id
        /\ \A t \in Callers :
              (gen[t].pc = "mint" /\ gen'[t].pc = "clr")
                 => gen'[t].local_id # g_stop_generation_id'
      ]_vars

\* a stop call read the id of the finished first generation; the second
\* generation was admitted before the stop stored it, and is sampling
C12_Witness ==
    /\ lc.pc = "S_st" /\ lc.ldActive = 0 /\ lc.stopId = 1
    /\ gen[1].pc = "tk_sample" /\ gen[1].local_id = 2

\* nothing is loaded and nothing is allocated
Unloaded == SessionAbsent /\ live = {}
\* what an unloadModel leaves behind when it has returned and nothing runs
AfterUnload ==
    (Quiescent /\ lc.ret = "unload")
        => /\ Unloaded /\ ~badFree /\ ~isModelLoaded
           /\ g_stop_generation_id = g_generation_id

\* C13: unloadModel on an already-unloaded session is a no-op: none of its
\* steps releases or frees anything or changes the session, the plan, the
\* generating flag or generation_id (it only rewrites stop_id with
\* generation_id); after an unloadModel stop_id already equals
\* generation_id, so a second unloadModel changes no variable at all and
\* leaves exactly the state the first one left.
C13_UnloadIdempotent ==
    [][ /\ AfterUnload /\ AfterUnload'
        /\ ( /\ Unloaded
             /\ lc.pc \in UnloadPcs \/ (lc.pc = "idle" /\ lc'.pc = "U_ld") )
              => /\ UNCHANGED << sessionVars, planVars, g_is_generating,
                                 g_generation_id, crashed, gen, obs >>
                 /\ g_stop_generation_id = g_generation_id
                       => UNCHANGED g_stop_generation_id
      ]_vars

\* load, unload, and a second unload that is about to return: it found
\* nothing to free
C13_Witness ==
    /\ lc.pc = "U_fmodel" /\ nCalls = 3 /\ gen[1].ret = "none"
    /\ lc.model_copy = 0 /\ lc.ctx_copy = 0 /\ lc.sampler_copy = 0
    /\ ~lc.batch_copy
    /\ Unloaded /\ ~badFree /\ relBy["model"].by = "unload"

\* the text and the fragments an uninterrupted call has produced once the
\* first k tokens of the backend's stream have been converted
RECURSIVE StreamText(_)
StreamText(k) ==
    IF k = 0 THEN << >> ELSE StreamText(k - 1) \o TokenPiece(StreamToken(k))
RECURSIVE StreamFragments(_)
StreamFragments(k) ==
    IF k = 0 THEN << >>
    ELSE IF TokenPiece(StreamToken(k)) = << >>
         THEN StreamFragments(k - 1)
         ELSE Append(StreamFragments(k - 1), TokenPiece(StreamToken(k)))
IsPrefix(s, u) == Len(s) <= Len(u) /\ SubSeq(u, 1, Len(s)) = s
\* tokens of the stream converted to text so far by the call in slot t
Converted(t) == obs[t].converted

\* C14: whenever a generate call stops (stop request seen in the prefill
\* or in the token loop, or any other exit), the text it is about to return
\* and the fragments it has delivered are those of the first k tokens of
\* the backend's stream, for the k it has converted: a prefix of the text
\* and of the fragments of every longer run on the same stream, up to the
\* uninterrupted run's.
C14_CancelledTextIsPrefix ==
    \A t \in Callers :
        Minted(t) =>
            /\ gen[t].response = StreamText(Converted(t))
            /\ obs[t].delivered = StreamFragments(Converted(t))
            /\ \A m \in Converted(t)..Max2(gen[t].maxTokens, Converted(t)) :
                  /\ IsPrefix(gen[t].response, StreamText(m))
                  /\ IsPrefix(obs[t].delivered, StreamFragments(m))

\* a call allowed three tokens is about to return after two, stopped by
\* stopGeneration: it returns "101" where the full run returns "101","103"
C14_Witness ==
    /\ gen[1].pc = "fin" /\ gen[1].maxTokens = 3 /\ gen[1].n_generated = 2
    /\ g_stop_generation_id = gen[1].local_id /\ lc.ret = "stop"
    /\ gen[1].response = << 101 >> /\ StreamText(3) = << 101, 103 >>

\* stop_id names the running call in slot t, which is past its own clearing
\* of stop_id (nothing else overwrites it)
StopStands(t) ==
    Minted(t) /\ gen[t].pc # "clr" /\ g_stop_generation_id = gen[t].local_id
\* the pcs inside a prefill chunk or a token iteration
InIteration ==
    {"pf_fill", "pf_dec", "tk_sample", "tk_piece", "tk_batch", "tk_dec"}

\* C15: a generation begins a prefill chunk or a token iteration only
\* after reading stop_id different from its own id at the head of the loop;
\* when stop_id equals its id there, the prefill loop leaves for the
\* cancellation exit, which clears the generating flag and returns the empty
\* text, and the token loop leaves for the common exit; and once stop_id
\* equals the id of a running generation the call returns, with the
\* generating flag cleared when it does.
C15_StopChecked ==
    /\ [][ \A t \in Callers :
             /\ (gen[t].pc \notin InIteration /\ gen'[t].pc \in InIteration)
                   => /\ gen[t].pc \in {"pf_chk", "tk_chk"}
                      /\ g_stop_generation_id # gen[t].local_id
             /\ (StopStands(t) /\ gen[t].pc = "pf_chk")
                   => gen'[t].pc \in {"pf_chk", "pf_post"}
             /\ (StopStands(t) /\ gen[t].pc = "tk_chk")
                   => gen'[t].pc \in {"tk_chk", "fin"}
             /\ (StopStands(t) /\ gen[t].pc = "pf_post")
                   => \/ gen'[t] = gen[t]
                      \/ /\ gen'[t].pc = "idle" /\ gen'[t].ret = "cancelled"
                         /\ ~g_is_generating'
             /\ (StopStands(t) /\ gen'[t].pc = "idle") => ~g_is_generating'
        ]_vars
    /\ \A t \in Callers : StopStands(t) ~> (gen[t].pc = "idle")

\* a stop request arrived while the first of two prompt chunks was being
\* evaluated; the call is at the cancellation exit with the second chunk
\* not started
C15_Witness ==
    /\ gen[1].pc = "pf_post" /\ StopStands(1)
    /\ gen[1].n_processed = 128 /\ gen[1].n_prompt = 130


\* ---------------------------------------------------------------------------
\* Prompt evaluation (lines 425-444)

\* what evaluating the whole prompt puts in the context: token i at position
\* i - 1, logits requested on the last one only (line 432)
PromptFeed(t) ==
    [i \in 1..gen[t].n_prompt |->
        [token |-> gen[t].tokens[i], pos |-> i - 1,
         logits |-> (i = gen[t].n_prompt)]]

InPrefill(t) == gen[t].pc \in {"pf_chk", "pf_fill", "pf_dec", "pf_post"}

\* 446-462: the prompt loop ran to its end and the call goes on to sample
PrefillComplete(t) == gen[t].pc = "reset"

\* the chunk handed to llama_decode at line 436 is a fresh one of 1..batch_size
\* entries within the buffer allocated at load (line 281), continuing where the
\* chunks decoded so far ended, and those chunks are the first n_processed
\* entries of PromptFeed
ChunksWellFormed ==
    \A t \in Callers :
        /\ InPrefill(t) =>
              /\ gen[t].n_processed <= gen[t].n_prompt
              /\ obs[t].fed = SubSeq(PromptFeed(t), 1, gen[t].n_processed)
        /\ gen[t].pc = "pf_dec" =>
              /\ Len(g_batch.entries) >= 1
              /\ Len(g_batch.entries) <= g_batch_size
              /\ g_batch.cap = g_batch_size
              /\ g_batch.entries =
                     SubSeq(PromptFeed(t), gen[t].n_processed + 1,
                            gen[t].n_processed + Len(g_batch.entries))
        /\ PrefillComplete(t) => obs[t].fed = PromptFeed(t)

\* entries of the evaluated prompt that asked for logits
LogitsRequests(t) == {i \in 1..Len(obs[t].fed) : obs[t].fed[i].logits}

\* C16: prompt evaluation never overfills the batch buffer and requests logits
\* exactly once: every submitted chunk is a freshly filled one of 1..batch_size
\* entries (the capacity allocated at load), the chunks cover the prompt
\* tokens contiguously and in order at positions 0..n_prompt-1, and a prompt
\* evaluation that ran to its end requested logits on its final token and on
\* no other
C16_BatchDiscipline ==
    /\ ChunksWellFormed
    /\ \A t \in Callers :
          PrefillComplete(t) => LogitsRequests(t) = {gen[t].n_prompt}
                                /\ gen[t].n_prompt >= 1

\* 436-441: llama_decode of a prompt chunk returned non-zero
PromptEvalFails(t) ==
    gen[t].pc = "pf_dec" /\ gen'[t].pc \notin {"pf_dec", "pf_chk"}

\* C17: a decode failure during prompt evaluation ends the generate call with
\* the prompt-evaluation error and no partial text: up to that point the call
\* has delivered no fragment, sampled and converted no token and accumulated
\* no response; the failing step releases nothing and changes no session
\* field, the session is still fully loaded afterwards (isModelLoaded() is
\* true) and the generating flag is cleared.
C17_PromptEvalFailure ==
    [][ \A t \in Callers :
          PromptEvalFails(t) =>
             /\ gen'[t].pc = "idle" /\ gen'[t].ret = "prompt_fail"
             /\ obs[t].delivered = << >> /\ gen[t].response = << >>
             /\ obs[t].sampled = 0 /\ obs[t].converted = 0
             /\ obs[t].nSubmit = 0
             /\ UNCHANGED << sessionVars, planVars >>
             /\ SessionPresent' /\ isModelLoaded'
             /\ ~g_is_generating'
      ]_vars

\* the second admitted call of a session on a 512-token context failed in
\* prompt evaluation: session still loaded, flag clear
C17_Witness ==
    /\ gen[1].pc = "idle" /\ gen[1].ret = "prompt_fail"
    /\ gen[2].pc = "idle"
    /\ lc.pc = "idle" /\ lc.ret = "load_true"
    /\ SessionPresent /\ isModelLoaded /\ ~g_is_generating
    /\ g_generation_id = 2 /\ g_context_size = 512

\* the concatenation of a sequence of fragments, in order
RECURSIVE Concat(_)
Concat(frags) ==
    IF frags = << >> THEN << >>
    ELSE Head(frags) \o Concat(Tail(frags))

\* 505-509: the call is about to return the accumulated response
AboutToReturnText(t) == gen[t].pc = "fin"

\* 496-499: the call left the token loop through the failed decode of the
\* token it had just converted
LeftByDecodeFailure(t) ==
    /\ AboutToReturnText(t)
    /\ obs[t].nSubmit = gen[t].n_generated + 1

\* C18: streaming and the returned text agree: at every point of a generate
\* call the accumulated response is the concatenation, in generation order, of
\* exactly the fragments delivered to the callback so far, so the text
\* returned at any exit of the token loop (max tokens, context full,
\* end-of-sequence, cancellation, failed decode step) is the concatenation of
\* all delivered fragments; after a failed decode step it includes the
\* fragment of the token whose decode failed.
C18_StreamAgrees ==
    \A t \in Callers :
        /\ gen[t].response = Concat(obs[t].delivered)
        /\ LeftByDecodeFailure(t) =>
              /\ obs[t].converted = gen[t].n_generated + 1
              /\ Len(obs[t].delivered) =
                     Cardinality({k \in 1..obs[t].converted :
                                     TokenPiece(StreamToken(k)) # << >>})

\* the decode of the first sampled token failed after its fragment had been
\* streamed: the text about to be returned is that fragment
C18_Witness ==
    /\ LeftByDecodeFailure(1) /\ gen[1].n_generated = 0
    /\ obs[1].delivered = << TokenPiece(StreamToken(1)) >>
    /\ gen[1].response = TokenPiece(StreamToken(1))
    /\ gen[1].response # << >>

\* C19: every token sampled in a generate call is sampled from logits produced
\* in that call: whenever the call is at llama_sampler_sample (line 466), the
\* last decode since the memory was cleared (line 411) succeeded and its last
\* entry requested logits, for every prompt length, max_tokens and
\* context_size.
C19_SampleHasLogits ==
    \A t \in Callers : gen[t].pc = "tk_sample" => obs[t].logits

\* 458-503: the call is in the token loop or past it
InTokenLoop(t) ==
    gen[t].pc \in {"tk_chk", "tk_sample", "tk_piece", "tk_batch", "tk_dec",
                   "fin"}

\* the entries handed to llama_decode since the memory was cleared (line
\* 411), in submission order, followed by the batch about to be submitted
Submitted(t) ==
    obs[t].fed \o (IF gen[t].pc \in {"pf_dec", "tk_dec"}
                   THEN g_batch.entries ELSE << >>)

\* C20: the context window is never overrun: within one generate call the
\* positions submitted to decode are 0, 1, 2, ... without gap or repeat, the
\* prompt tokens first and then one generated token per iteration, every
\* submitted position is below context_size (the size the context was
\* created with), and so the number of tokens placed in the context's memory
\* since the per-call clear never exceeds context_size.
C20_ContextNotOverrun ==
    \A t \in Callers :
        LET sub == Submitted(t)
        IN  /\ \A i \in 1..Len(sub) :
                  /\ sub[i].pos = i - 1
                  /\ sub[i].pos < g_context_size
            /\ Len(sub) <= g_context_size
            /\ sub # << >> => g_context_size = ctxParams.n_ctx
            /\ InTokenLoop(t) =>
                  /\ Len(sub) >= gen[t].n_prompt
                  /\ Len(sub) <= gen[t].n_prompt + gen[t].maxTokens
                  /\ \A i \in 1..Len(sub) :
                        IF i <= gen[t].n_prompt
                        THEN sub[i].token = gen[t].tokens[i]
                        ELSE sub[i].token = StreamToken(i - gen[t].n_prompt)

\* a 300-token prompt cut to 240 tokens and 256 generated tokens on a
\* 512-token context: positions 0..495 submitted
C20_Witness ==
    /\ gen[1].pc = "fin" /\ g_context_size = 512
    /\ gen[1].n_prompt = 240 /\ gen[1].n_generated = 256
    /\ Len(obs[1].fed) = 496
    /\ obs[1].fed[240].token = 300 /\ obs[1].fed[241].token = StreamToken(1)
    /\ obs[1].fed[496].pos = 495

\* C21: loadModel() called while a generate call is in flight never releases
\* the batch buffer, sampler, context or model the generation is still using:
\* no step of a generation (sample, decode, batch write, memory clear,
\* vocabulary read) runs on a resource that the teardown at the start of
\* loadModel (lines 175-192) freed or nulled while that generation was in
\* flight.
C21_LoadSafe == "load" \notin uafBy
====
